---------------------------- MODULE Spec2Model ----------------------------
(***************************************************************************)
(* A model of vex (include/vex/vex.h), a single-header C99 command-line    *)
(* argument parser: the option registry (vex_init, vex_add_arg), the       *)
(* tokenizer (vex_parse), the result accessors (vex_token_count,           *)
(* vex_get_token, vex_arg_found) and the help cache (vex_get_help).        *)
(*                                                                         *)
(* C strings are sequences of one-character strings; a NULL char* is the   *)
(* value NULL.  A vex_value is a record with the three members of the      *)
(* union, the unused ones left at the zero of `vex_value value = { 0 }`.   *)
(* vex_parse is one action per iteration of its argument loop; the         *)
(* arguments argv[1..] are drawn one at a time, which is the order in      *)
(* which the loop reads them.                                              *)
(*                                                                         *)
(* Modelling assumptions: VEX_MALLOC / VEX_REALLOC never return NULL;      *)
(* every descriptor handed to vex_add_arg has a non-NULL long_name (what   *)
(* the C++ wrapper passes); descriptions are text only and are left out.   *)
(***************************************************************************)
EXTENDS Integers, Sequences, FiniteSets, TLC

\* ------------------------------------------------------------------------
\* Program constants (vex.h lines 33-43)
\* ------------------------------------------------------------------------
VEX_ARG_TYPE_UNKNOWN == 0
VEX_ARG_TYPE_FLAG == 1
VEX_ARG_TYPE_INT == 2
VEX_ARG_TYPE_DUB == 3
VEX_ARG_TYPE_STR == 4

VEX_STATUS_OK == 0
VEX_STATUS_BAD_ALLOC == 1
VEX_STATUS_BAD_VALUE == 2
VEX_STATUS_UNKNOWN_ARG == 3

\* ------------------------------------------------------------------------
\* Bounds of the model
\* ------------------------------------------------------------------------
\* Largest registry the model builds (the two defaults included): in the
\* registration and lifecycle scenarios, and in the parsing scenario.
MaxDesc == 4
MaxOptions == 3
\* Largest number of arguments after argv[0] one vex_parse call is given.
MaxArgs == 3
\* The longest text of the type-inference scenario.
MaxText == 3

\* ------------------------------------------------------------------------
\* C strings and <ctype.h>, <string.h>, <stdlib.h>
\* ------------------------------------------------------------------------
NULL == <<"NULL">>
NUL == "\\0"

Digits == {"0", "1", "2", "3", "4", "5", "6", "7", "8", "9"}
Letters == {"a", "b", "c", "d", "e", "f", "g", "h", "i", "j", "k", "l", "m",
            "n", "o", "p", "q", "r", "s", "t", "u", "v", "w", "x", "y", "z"}

isdigit(c) == c \in Digits
isalpha(c) == c \in Letters

DigitVal(c) ==
  CASE c = "0" -> 0 [] c = "1" -> 1 [] c = "2" -> 2 [] c = "3" -> 3
    [] c = "4" -> 4 [] c = "5" -> 5 [] c = "6" -> 6 [] c = "7" -> 7
    [] c = "8" -> 8 [] c = "9" -> 9

\* The suffix of s that starts at index i (1-based); <<>> past the end.
Tail_from(s, i) == IF i > Len(s) THEN <<>> ELSE SubSeq(s, i, Len(s))

\* strcspn(s, "="): the length of the prefix of s that holds no '='.
RECURSIVE strcspn_eq(_)
strcspn_eq(s) ==
  IF s = <<>> \/ Head(s) = "=" THEN 0 ELSE 1 + strcspn_eq(Tail(s))

\* strchr(s, '='): the index of the first '=' of s, 0 when there is none.
strchr_eq(s) == IF strcspn_eq(s) = Len(s) THEN 0 ELSE strcspn_eq(s) + 1

\* strncmp(a, b, n) == 0: a and b agree on their first n characters, or up
\* to and including the terminator of both, whichever comes first.
RECURSIVE strncmp_eq(_, _, _)
strncmp_eq(a, b, n) ==
  IF n = 0 THEN TRUE
  ELSE IF a = <<>> \/ b = <<>> THEN a = <<>> /\ b = <<>>
  ELSE Head(a) = Head(b) /\ strncmp_eq(Tail(a), Tail(b), n - 1)

\* strcmp(a, b) == 0
strcmp_eq(a, b) == a = b

\* The value of the leading run of digits of s, read left to right from acc.
RECURSIVE DigitRun(_, _)
DigitRun(s, acc) ==
  IF s = <<>> \/ ~isdigit(Head(s)) THEN acc
  ELSE DigitRun(Tail(s), 10 * acc + DigitVal(Head(s)))

\* The number of leading digits of s.
RECURSIVE DigitRunLen(_)
DigitRunLen(s) ==
  IF s = <<>> \/ ~isdigit(Head(s)) THEN 0 ELSE 1 + DigitRunLen(Tail(s))

\* atoi(s): an optional sign, then the leading digits; 0 when there are none.
\* (The strings of the model are short: no int overflow.)
atoi(s) ==
  IF s # <<>> /\ Head(s) = "-" THEN 0 - DigitRun(Tail(s), 0)
  ELSE IF s # <<>> /\ Head(s) = "+" THEN DigitRun(Tail(s), 0)
  ELSE DigitRun(s, 0)

\* A double is the decimal m / 10^e, with e as small as possible.
RECURSIVE NormDub(_, _)
NormDub(m, e) ==
  IF e > 0 /\ m % 10 = 0 THEN NormDub(m \div 10, e - 1) ELSE [m |-> m, e |-> e]

ZeroDub == [m |-> 0, e |-> 0]

\* atof(s) on unsigned decimal text: digits, then an optional '.' and digits;
\* 0.0 when s starts with neither a digit nor '.' followed by a digit.
UnsignedDub(s) ==
  LET n1 == DigitRunLen(s)
      r == Tail_from(s, n1 + 1)
      hasDot == r # <<>> /\ Head(r) = "."
      f == IF hasDot THEN Tail(r) ELSE <<>>
      n2 == DigitRunLen(f)
  IN IF n1 + n2 = 0 THEN ZeroDub
     ELSE NormDub(DigitRun(f, DigitRun(s, 0)), n2)

atof(s) ==
  IF s # <<>> /\ Head(s) = "-"
    THEN LET d == UnsignedDub(Tail(s)) IN [m |-> 0 - d.m, e |-> d.e]
  ELSE IF s # <<>> /\ Head(s) = "+" THEN UnsignedDub(Tail(s))
  ELSE UnsignedDub(s)

\* _vex_strdup(str): a copy of str, NULL for NULL.
_vex_strdup(str) == str


\* ------------------------------------------------------------------------
\* The context (vex_ctx, vex.h lines 84-97)
\* ------------------------------------------------------------------------
VARIABLES
  arg_desc,            \* ctx->arg_desc[0 .. num_arg_desc-1], 1-based here
  capacity_arg_desc,   \* ctx->capacity_arg_desc
  arg_token,           \* ctx->arg_token[0 .. num_arg_token-1], 1-based here
  capacity_arg_token,  \* ctx->capacity_arg_token
  arg_token_ptr,       \* the block ctx->arg_token points to: null, live, freed
  status,              \* ctx->status
  status_msg,          \* ctx->status_msg (NULL or the formatted message)
  help_msg,            \* ctx->help_msg (NULL or the rendered text)
  pc,                  \* idle, parsing (in vex_parse's loop), aborted, freed
  ret,                 \* what the last finished call returned: none, true, false
  argv,                \* argv[1 .. a-1] of the vex_parse call, as read so far
  last_desc,           \* vex_parse's local last_desc (0-based, -1 for none)
  last_token,          \* vex_parse's local last_token (0-based, -1 for none)
  token_count,         \* vex_parse's local token_count
  parse_options,       \* vex_parse's local parse_options
  produced,            \* history: the tokens this vex_parse call has built
  matched,             \* history: indices of descriptors this call matched
  parsed,              \* history: vex_parse has been called on this context
  ub,                  \* history: undefined behaviour has been executed
  leaked               \* history: a buffer was dropped without being released

vars == <<arg_desc, capacity_arg_desc, arg_token, capacity_arg_token,
          arg_token_ptr, status, status_msg, help_msg, pc, ret, argv,
          last_desc, last_token, token_count, parse_options, produced,
          matched, parsed, ub, leaked>>

num_arg_desc == Len(arg_desc)
num_arg_token == Len(arg_token)

\* vex_arg_desc (vex.h lines 76-82), without the description text.
Desc(long, short, type, max) ==
  [long_name |-> long, short_name |-> short, arg_type |-> type, max_count |-> max]

\* _vex_set_status: the status, and the message (NULL for VEX_STATUS_OK,
\* VEX_STATUS_BAD_ALLOC or a NULL format; the old message is freed either way).
_vex_set_status(st, fmt) ==
  [status |-> st,
   status_msg |-> IF st # VEX_STATUS_OK /\ st # VEX_STATUS_BAD_ALLOC /\ fmt # NULL
                  THEN fmt ELSE NULL]

\* The doubling of vex_add_arg's and _vex_add_token's resize loop:
\* the capacity after `while (num >= capacity)`.
RECURSIVE GrowCapacity(_, _)
GrowCapacity(capacity, num) ==
  IF num >= capacity
    THEN GrowCapacity(IF 2 * capacity = 0 THEN 1 ELSE 2 * capacity, num)
  ELSE capacity

\* A duplicate scan that compares the short names only.
DuplicateArg_ShortOnly(descs, desc) ==
  \E i \in 1..Len(descs) : descs[i].short_name = desc.short_name

\* vex_add_arg's duplicate scan (lines 180-191): some registered descriptor
\* has the short name or, by strcmp, the long name of desc.
DuplicateArg(descs, desc) ==
  \E i \in 1..Len(descs) :
    \/ descs[i].short_name = desc.short_name
    \/ strcmp_eq(descs[i].long_name, desc.long_name)

\* A registration that leaves the cached help text in place.
AddArg_KeepHelp(c, desc) ==
  IF ~isalpha(desc.short_name) \/ DuplicateArg(c.arg_desc, desc)
    THEN [c EXCEPT !.status = VEX_STATUS_BAD_VALUE, !.ok = FALSE]
  ELSE [c EXCEPT !.arg_desc = Append(c.arg_desc,
                                     Desc(_vex_strdup(desc.long_name), desc.short_name,
                                          desc.arg_type, desc.max_count)),
                 !.capacity_arg_desc = GrowCapacity(c.capacity_arg_desc, Len(c.arg_desc)),
                 !.ok = TRUE]

\* vex_add_arg on the registry part of a context c =
\* [arg_desc, capacity_arg_desc, status, status_msg, help_msg]; the result
\* is the context after the call, with the returned bool in `ok`.
AddArg(c, desc) ==
  IF ~isalpha(desc.short_name) THEN
    LET s == _vex_set_status(VEX_STATUS_BAD_VALUE,
                             <<"Invalid short arg name: %c", desc.short_name>>)
    IN [c EXCEPT !.status = s.status, !.status_msg = s.status_msg, !.ok = FALSE]
  ELSE IF desc.short_name = NUL /\ desc.long_name = NULL THEN
    LET s == _vex_set_status(VEX_STATUS_BAD_VALUE, <<"No arg name given">>)
    IN [c EXCEPT !.status = s.status, !.status_msg = s.status_msg, !.ok = FALSE]
  ELSE IF DuplicateArg(c.arg_desc, desc) THEN
    LET s == IF desc.short_name = NUL
               THEN _vex_set_status(VEX_STATUS_BAD_VALUE,
                                    <<"Duplicate arguments: --%s", desc.long_name>>)
               ELSE _vex_set_status(VEX_STATUS_BAD_VALUE,
                                    <<"Duplicate arguments: -%c", desc.short_name>>)
    IN [c EXCEPT !.status = s.status, !.status_msg = s.status_msg, !.ok = FALSE]
  ELSE
    [c EXCEPT !.arg_desc = Append(c.arg_desc,
                                  Desc(_vex_strdup(desc.long_name), desc.short_name,
                                       desc.arg_type, desc.max_count)),
              !.capacity_arg_desc = GrowCapacity(c.capacity_arg_desc, Len(c.arg_desc)),
              !.help_msg = NULL,
              !.ok = TRUE]

S_help == <<"h", "e", "l", "p">>
S_version == <<"v", "e", "r", "s", "i", "o", "n">>

\* vex_init (lines 127-166): the zeroed context with -h/--help and
\* -v/--version registered through vex_add_arg.
vex_init ==
  LET c0 == [arg_desc |-> <<>>, capacity_arg_desc |-> 0,
             status |-> VEX_STATUS_OK, status_msg |-> NULL, help_msg |-> NULL,
             ok |-> TRUE]
      arg_help_flag == Desc(S_help, "h", VEX_ARG_TYPE_FLAG, 0)
      arg_ver_flag == Desc(S_version, "v", VEX_ARG_TYPE_FLAG, 0)
  IN AddArg(AddArg(c0, arg_help_flag), arg_ver_flag)

Init ==
  /\ arg_desc = vex_init.arg_desc
  /\ capacity_arg_desc = vex_init.capacity_arg_desc
  /\ arg_token = <<>>
  /\ capacity_arg_token = 0
  /\ arg_token_ptr = "null"
  /\ status = vex_init.status
  /\ status_msg = vex_init.status_msg
  /\ help_msg = vex_init.help_msg
  /\ pc = "idle"
  /\ ret = "none"
  /\ argv = <<>>
  /\ last_desc = -1
  /\ last_token = -1
  /\ token_count = 0
  /\ parse_options = TRUE
  /\ produced = <<>>
  /\ matched = {}
  /\ parsed = FALSE
  /\ ub = FALSE
  /\ leaked = FALSE

\* ------------------------------------------------------------------------
\* Tokens and values (vex_value, vex_arg_token: vex.h lines 62-74)
\* ------------------------------------------------------------------------
\* `vex_value value = { 0 }`
ZeroValue == [str_arg |-> NULL, dub_arg |-> ZeroDub, int_arg |-> 0]

\* `vex_arg_token token = { 0 }`; arg_count is Len(token.arg).
ZeroToken ==
  [long_name |-> NULL, short_name |-> NUL, arg_type |-> VEX_ARG_TYPE_UNKNOWN,
   arg |-> <<>>]

\* The switch that converts text to a value of the given type (lines 271-275,
\* 310-314, 364-368, 376-380): other types leave the value zeroed.
ConvertValue(type, text) ==
  CASE type = VEX_ARG_TYPE_INT -> [ZeroValue EXCEPT !.int_arg = atoi(text)]
    [] type = VEX_ARG_TYPE_DUB -> [ZeroValue EXCEPT !.dub_arg = atof(text)]
    [] type = VEX_ARG_TYPE_STR -> [ZeroValue EXCEPT !.str_arg = _vex_strdup(text)]
    [] OTHER -> ZeroValue

\* _vec_token_add_value (lines 572-582): the token with the value appended.
_vec_token_add_value(token, value) == [token EXCEPT !.arg = Append(@, value)]

\* What a block that was freed and is still in use may come to hold.
ClobberedToken == ZeroToken

\* The outcomes of using the freed block of ctx->arg_token: the allocator
\* hands it out again and it stays intact (valid), the allocator aborts the
\* process (abort), or the block is shared with a later allocation that
\* overwrites the token stored in it (clobber).
UBOutcomes == {"valid", "abort", "clobber"}

\* _vex_add_token (lines 536-554) on the parse state p.  When the token
\* buffer is full it is resized with VEX_REALLOC; if ctx->arg_token still
\* points to the block vex_parse freed, that is a use after free.
_vex_add_token(p, token, outcome) ==
  LET full == Len(p.arg_token) >= p.capacity_arg_token
      useAfterFree == full /\ p.arg_token_ptr = "freed"
      stored == IF useAfterFree /\ outcome = "clobber" THEN ClobberedToken ELSE token
  IN IF useAfterFree /\ outcome = "abort"
       THEN [p EXCEPT !.ub = TRUE, !.res = "abort"]
     ELSE [p EXCEPT
             !.ub = @ \/ useAfterFree,
             !.arg_token_ptr = IF full THEN "live" ELSE @,
             !.capacity_arg_token = GrowCapacity(@, Len(p.arg_token)),
             !.arg_token = Append(@, stored),
             !.produced = Append(@, token)]

\* The least element of a non-empty set of indices: the descriptor at which
\* a scan `for (d = 0; ...) if (...) { ...; break; }` stops.
FirstOf(ds) == CHOOSE d \in ds : \A e \in ds : d <= e

\* A long-option test that compares over the registered name's length.
LongNameMatches_RegisteredLength(arg, desc) ==
  strncmp_eq(Tail_from(arg, 3), desc.long_name, Len(desc.long_name))

\* The long-option test of line 251: strncmp over the supplied name's span.
LongNameMatches(arg, desc) ==
  strncmp_eq(Tail_from(arg, 3), desc.long_name, strcspn_eq(Tail_from(arg, 3)))

\* The scan of lines 249-258: the first descriptor (1-based) whose long name
\* matches arg, 0 when none does.
FirstLongMatch(descs, arg) ==
  LET ds == {d \in 1..Len(descs) : LongNameMatches(arg, descs[d])}
  IN IF ds = {} THEN 0 ELSE FirstOf(ds)

\* The scan of lines 291-300: the first descriptor (1-based) whose short name
\* is c, 0 when none is.
FirstShortMatch(descs, c) ==
  LET ds == {d \in 1..Len(descs) : descs[d].short_name = c}
  IN IF ds = {} THEN 0 ELSE FirstOf(ds)

\* A token for descriptor desc (lines 252-254, 294-296).
TokenOf(desc) ==
  [long_name |-> _vex_strdup(desc.long_name), short_name |-> desc.short_name,
   arg_type |-> desc.arg_type, arg |-> <<>>]

\* A long-option branch that stores the `=value` text for a Flag too.
ParseLongOption_ValueForFlag(p, descs, arg, outcome) ==
  LET d == FirstLongMatch(descs, arg)
  IN IF d = 0 THEN
       LET s == _vex_set_status(VEX_STATUS_UNKNOWN_ARG, <<"Unknown option: %s", arg>>)
       IN [p EXCEPT !.status = s.status, !.status_msg = s.status_msg, !.res = "false"]
     ELSE
       LET token == TokenOf(descs[d])
           pch == strchr_eq(arg)
           valued == IF pch # 0
                       THEN _vec_token_add_value(
                              token, ConvertValue(token.arg_type, Tail_from(arg, pch + 1)))
                     ELSE token
           q == _vex_add_token([p EXCEPT !.last_desc = d - 1,
                                         !.matched = @ \cup {d - 1}],
                               valued, outcome)
       IN IF q.res # "continue" THEN q
          ELSE [q EXCEPT !.last_token = Len(q.arg_token) - 1,
                         !.token_count = @ + 1]

\* The long-option branch (lines 245-284).
ParseLongOption(p, descs, arg, outcome) ==
  LET d == FirstLongMatch(descs, arg)
  IN IF d = 0 THEN
       LET s == _vex_set_status(VEX_STATUS_UNKNOWN_ARG, <<"Unknown option: %s", arg>>)
       IN [p EXCEPT !.status = s.status, !.status_msg = s.status_msg, !.res = "false"]
     ELSE
       LET token == TokenOf(descs[d])
           pch == strchr_eq(arg)
           valued == IF token.arg_type # VEX_ARG_TYPE_FLAG /\ pch # 0
                       THEN _vec_token_add_value(
                              token, ConvertValue(token.arg_type, Tail_from(arg, pch + 1)))
                     ELSE token
           q == _vex_add_token([p EXCEPT !.last_desc = d - 1,
                                         !.matched = @ \cup {d - 1}],
                               valued, outcome)
       IN IF q.res # "continue" THEN q
          ELSE [q EXCEPT !.last_token = Len(q.arg_token) - 1,
                         !.token_count = @ + 1]

\* A short-option loop that goes on scanning after it attached the rest of
\* the argument as a value.
RECURSIVE ParseShortOptions_ContinueScan(_, _, _, _, _)
ParseShortOptions_ContinueScan(p, descs, arg, i, outcome) ==
  IF i > Len(arg) THEN p
  ELSE
    LET c == arg[i]
        d == FirstShortMatch(descs, c)
    IN IF d = 0 THEN
         IF /\ p.last_token >= 0
            /\ p.arg_token[p.last_token + 1].short_name # NUL
            /\ p.arg_token[p.last_token + 1].arg_type # VEX_ARG_TYPE_FLAG
         THEN
           LET k == p.last_token + 1
               value == ConvertValue(p.arg_token[k].arg_type, Tail_from(arg, i))
           IN ParseShortOptions_ContinueScan(
                [p EXCEPT !.arg_token[k] = _vec_token_add_value(@, value),
                          !.produced[k] = _vec_token_add_value(@, value)],
                descs, arg, i + 1, outcome)
         ELSE
           LET s == _vex_set_status(VEX_STATUS_UNKNOWN_ARG, <<"Unknown option: -%c", c>>)
           IN [p EXCEPT !.status = s.status, !.status_msg = s.status_msg,
                        !.res = "false"]
       ELSE
         LET q == _vex_add_token([p EXCEPT !.last_desc = d - 1,
                                           !.matched = @ \cup {d - 1}],
                                 TokenOf(descs[d]), outcome)
         IN IF q.res # "continue" THEN q
            ELSE ParseShortOptions_ContinueScan(
                   [q EXCEPT !.last_token = Len(q.arg_token) - 1,
                             !.token_count = @ + 1],
                   descs, arg, i + 1, outcome)

\* The short-option loop (lines 286-329) from character i (1-based) of arg.
RECURSIVE ParseShortOptions(_, _, _, _, _)
ParseShortOptions(p, descs, arg, i, outcome) ==
  IF i > Len(arg) THEN p
  ELSE
    LET c == arg[i]
        d == FirstShortMatch(descs, c)
    IN IF d = 0 THEN
         IF /\ p.last_token >= 0
            /\ p.arg_token[p.last_token + 1].short_name # NUL
            /\ p.arg_token[p.last_token + 1].arg_type # VEX_ARG_TYPE_FLAG
         THEN
           LET k == p.last_token + 1
               value == ConvertValue(p.arg_token[k].arg_type, Tail_from(arg, i))
           IN [p EXCEPT !.arg_token[k] = _vec_token_add_value(@, value),
                        !.produced[k] = _vec_token_add_value(@, value)]
         ELSE
           LET s == _vex_set_status(VEX_STATUS_UNKNOWN_ARG, <<"Unknown option: -%c", c>>)
           IN [p EXCEPT !.status = s.status, !.status_msg = s.status_msg,
                        !.res = "false"]
       ELSE
         LET q == _vex_add_token([p EXCEPT !.last_desc = d - 1,
                                           !.matched = @ \cup {d - 1}],
                                 TokenOf(descs[d]), outcome)
         IN IF q.res # "continue" THEN q
            ELSE ParseShortOptions([q EXCEPT !.last_token = Len(q.arg_token) - 1,
                                             !.token_count = @ + 1],
                                   descs, arg, i + 1, outcome)

\* The type scan of a free-standing argument (lines 333-348), from the type
\* found so far.
RECURSIVE InferType(_, _)
InferType(s, type) ==
  IF s = <<>> THEN type
  ELSE IF ~isdigit(Head(s)) THEN
    IF Head(s) = "." THEN InferType(Tail(s), VEX_ARG_TYPE_DUB)
    ELSE VEX_ARG_TYPE_STR
  ELSE IF type # VEX_ARG_TYPE_DUB THEN InferType(Tail(s), VEX_ARG_TYPE_INT)
  ELSE InferType(Tail(s), type)

\* A capacity test that leaves out the unbounded (negative) max_count.
GroupWithLastToken_Bounded(p, descs) ==
  /\ p.last_token >= 0
  /\ Len(p.arg_token[p.last_token + 1].arg) < descs[p.last_desc + 1].max_count

\* Lines 350-355: the last token's descriptor still has capacity.
GroupWithLastToken(p, descs) ==
  /\ p.last_token >= 0
  /\ LET desc == descs[p.last_desc + 1]
         token == p.arg_token[p.last_token + 1]
     IN desc.max_count < 0 \/ Len(token.arg) < desc.max_count

\* A free-standing branch that stores a value of the wrong type as a new
\* token instead of failing.
ParseValue_Fallback(p, descs, arg, outcome) ==
  LET type == InferType(arg, VEX_ARG_TYPE_UNKNOWN)
      k == p.last_token + 1
  IN IF p.parse_options /\ GroupWithLastToken(p, descs)
          /\ p.arg_token[k].arg_type = type THEN
       [p EXCEPT !.arg_token[k] = _vec_token_add_value(@, ConvertValue(type, arg)),
                 !.produced[k] = _vec_token_add_value(@, ConvertValue(type, arg))]
     ELSE
       LET token == _vec_token_add_value([ZeroToken EXCEPT !.arg_type = type],
                                         ConvertValue(type, arg))
           q == _vex_add_token(p, token, outcome)
       IN IF q.res # "continue" THEN q
          ELSE [q EXCEPT !.last_token = -1, !.last_desc = -1]

\* A free-standing branch that adds a value to the newest token when that
\* token is itself a free-standing value.
ParseValue_GroupFree(p, descs, arg, outcome) ==
  LET type == InferType(arg, VEX_ARG_TYPE_UNKNOWN)
      n == Len(p.arg_token)
  IN IF n > 0 /\ p.arg_token[n].short_name = NUL THEN
       [p EXCEPT !.arg_token[n] = _vec_token_add_value(@, ConvertValue(type, arg)),
                 !.produced[n] = _vec_token_add_value(@, ConvertValue(type, arg))]
     ELSE
       LET token == _vec_token_add_value([ZeroToken EXCEPT !.arg_type = type],
                                         ConvertValue(type, arg))
           q == _vex_add_token(p, token, outcome)
       IN IF q.res # "continue" THEN q
          ELSE [q EXCEPT !.last_token = -1, !.last_desc = -1]

\* The free-standing branch (lines 332-386).
ParseValue(p, descs, arg, outcome) ==
  LET type == InferType(arg, VEX_ARG_TYPE_UNKNOWN)
  IN IF p.parse_options /\ GroupWithLastToken(p, descs) THEN
       LET k == p.last_token + 1
       IN IF p.arg_token[k].arg_type # type THEN
            LET s == _vex_set_status(VEX_STATUS_BAD_VALUE, <<"Unexpected value">>)
            IN [p EXCEPT !.status = s.status, !.status_msg = s.status_msg,
                         !.res = "false"]
          ELSE
            [p EXCEPT !.arg_token[k] = _vec_token_add_value(@, ConvertValue(type, arg)),
                      !.produced[k] = _vec_token_add_value(@, ConvertValue(type, arg))]
     ELSE
       LET token == _vec_token_add_value([ZeroToken EXCEPT !.arg_type = type],
                                         ConvertValue(type, arg))
           q == _vex_add_token(p, token, outcome)
       IN IF q.res # "continue" THEN q
          ELSE [q EXCEPT !.last_token = -1, !.last_desc = -1]

S_dashdash == <<"-", "-">>

\* An iteration that keeps last_desc, last_token and token_count when an
\* option argument starts.
ParseArg_KeepLast(p, descs, arg, outcome) ==
  IF arg = NULL THEN p
  ELSE IF strcmp_eq(arg, S_dashdash) THEN [p EXCEPT !.parse_options = FALSE]
  ELSE IF p.parse_options /\ arg # <<>> /\ arg[1] = "-" THEN
    IF Len(arg) >= 2 /\ arg[2] = "-"
      THEN ParseLongOption(p, descs, arg, outcome)
    ELSE ParseShortOptions(p, descs, arg, 2, outcome)
  ELSE ParseValue(p, descs, arg, outcome)

\* An iteration that, when it fails, takes back the tokens it stored.
ParseArg_Rollback(p, descs, arg, outcome) ==
  LET q == ParseArg_KeepLast([p EXCEPT !.last_desc = -1, !.last_token = -1], descs,
                             arg, outcome)
      r == IF p.parse_options /\ arg # <<>> /\ arg[1] = "-"
             THEN q ELSE ParseValue(p, descs, arg, outcome)
  IN IF arg = NULL \/ strcmp_eq(arg, S_dashdash) THEN q
     ELSE IF r.res = "false" THEN [r EXCEPT !.arg_token = p.arg_token]
     ELSE r

\* One iteration of vex_parse's loop (lines 230-387) on argument arg.
ParseArg(p, descs, arg, outcome) ==
  IF arg = NULL THEN p
  ELSE IF strcmp_eq(arg, S_dashdash) THEN [p EXCEPT !.parse_options = FALSE]
  ELSE IF p.parse_options /\ arg # <<>> /\ arg[1] = "-" THEN
    LET q == [p EXCEPT !.last_desc = -1, !.last_token = -1, !.token_count = 0]
    IN IF Len(arg) >= 2 /\ arg[2] = "-"
         THEN ParseLongOption(q, descs, arg, outcome)
       ELSE ParseShortOptions(q, descs, arg, 2, outcome)
  ELSE ParseValue(p, descs, arg, outcome)

\* ------------------------------------------------------------------------
\* Inputs: the descriptors callers register and the arguments they parse
\* ------------------------------------------------------------------------
D_num == Desc(<<"n", "u", "m">>, "n", VEX_ARG_TYPE_INT, 2)
D_in == Desc(<<"i", "n">>, "i", VEX_ARG_TYPE_STR, -1)
D_ver == Desc(<<"v", "e", "r">>, "x", VEX_ARG_TYPE_INT, 0)
D_rate == Desc(<<"r", "a", "t", "e">>, "r", VEX_ARG_TYPE_DUB, 1)
D_force == Desc(<<"f", "o", "r", "c", "e">>, "f", VEX_ARG_TYPE_FLAG, 1)
D_mix == Desc(<<"i", "n">>, "n", VEX_ARG_TYPE_STR, 1)
D_hello == Desc(<<"h", "e", "l", "l", "o">>, "h", VEX_ARG_TYPE_FLAG, 0)
D_help == Desc(<<"h", "e", "l", "p">>, "q", VEX_ARG_TYPE_FLAG, 0)
D_one == Desc(<<"o", "n", "e">>, "1", VEX_ARG_TYPE_FLAG, 0)

DescPool == {D_num, D_in, D_ver, D_rate, D_force, D_mix, D_hello, D_help, D_one}

A_sep == <<"-", "-">>
A_h == <<"-", "h">>
A_hvx == <<"-", "h", "v", "x">>
A_n5h == <<"-", "n", "5", "h">>
A_x7 == <<"-", "x", "7">>
A_num42 == <<"-", "-", "n", "u", "m", "=", "4", "2">>
A_num == <<"-", "-", "n", "u", "m">>
A_ver7 == <<"-", "-", "v", "e", "r", "=", "7">>
A_in == <<"-", "-", "i", "n", "=", "a", ".", "b">>
A_i == <<"-", "i">>
A_rate == <<"-", "-", "r", "a", "t", "e", "=", "1", ".", "5">>
A_f == <<"-", "f">>
A_str == <<"a", ".", "b">>
A_int == <<"4", "2">>
A_dub == <<"1", ".", "5">>
A_empty == <<>>
A_dash == <<"-">>
A_dx == <<"-", "x">>
A_helper == <<"-", "-", "h", "e", "l", "p", "e", "r">>
A_ih == <<"-", "i", "h">>

ArgPool == {A_sep, A_h, A_hvx, A_n5h, A_x7, A_num42, A_num, A_ver7, A_in, A_i, A_rate,
            A_f, A_str, A_int, A_dub, A_empty, A_dash, A_ih, A_helper}

\* The valid options of the parsing scenario, and the small inputs of the
\* lifecycle scenario.
OptionPool == {D_num, D_in, D_ver, D_rate, D_force}
LifecycleDescPool == {D_in, D_hello}
LifecycleArgPool == {A_h, A_str, A_dx, A_i}

\* The texts of the type-inference scenario: every string of digits, dots
\* and letters up to MaxText characters.
TextAlphabet == {"1", "7", ".", "a"}
TextPool == UNION {[1..n -> TextAlphabet] : n \in 0..MaxText}

\* ------------------------------------------------------------------------
\* Operations
\* ------------------------------------------------------------------------
ParseLocalsReset ==
  /\ last_desc' = -1
  /\ last_token' = -1
  /\ token_count' = 0
  /\ parse_options' = TRUE

\* vex_add_arg(ctx, desc) (lines 168-217).
vex_add_arg(desc) ==
  /\ pc = "idle"
  /\ LET c == AddArg([arg_desc |-> arg_desc, capacity_arg_desc |-> capacity_arg_desc,
                      status |-> status, status_msg |-> status_msg,
                      help_msg |-> help_msg, ok |-> TRUE], desc)
     IN /\ arg_desc' = c.arg_desc
        /\ capacity_arg_desc' = c.capacity_arg_desc
        /\ status' = c.status
        /\ status_msg' = c.status_msg
        /\ help_msg' = c.help_msg
        /\ ret' = IF c.ok THEN "true" ELSE "false"
  /\ UNCHANGED <<arg_token, capacity_arg_token, arg_token_ptr, pc, argv, last_desc,
                 last_token, token_count, parse_options, produced, matched,
                 parsed, ub, leaked>>

\* The heap blocks the tokens own: each token's duplicated long name, its
\* value array and the duplicated text of each String value.
OwnedBuffers(tokens) ==
  {<<i, "long_name", 0>> : i \in {j \in 1..Len(tokens) : tokens[j].long_name # NULL}}
    \cup {<<i, "arg", 0>> : i \in {j \in 1..Len(tokens) : tokens[j].arg # <<>>}}
    \cup UNION {{<<i, "str_arg", k>> : k \in {n \in 1..Len(tokens[i].arg) :
                                                 tokens[i].arg[n].str_arg # NULL}} :
                i \in 1..Len(tokens)}

\* vex_parse, lines 219-229: the old token buffer is freed (ctx->arg_token
\* keeps pointing to it), the counts are zeroed and the locals initialised.
\* Nothing the old tokens own is released.
\* Freeing a buffer that an earlier call already freed is a double free.
vex_parse_enter(outcome) ==
  /\ pc = "idle"
  /\ outcome \in (IF arg_token_ptr = "freed" THEN {"valid", "abort"} ELSE {"valid"})
  /\ arg_token_ptr' = IF arg_token_ptr = "null" THEN "null" ELSE "freed"
  /\ ub' = (ub \/ arg_token_ptr = "freed")
  /\ arg_token' = <<>>
  /\ capacity_arg_token' = 0
  /\ pc' = IF outcome = "abort" THEN "aborted" ELSE "parsing"
  /\ ret' = "none"
  /\ argv' = <<>>
  /\ produced' = <<>>
  /\ matched' = {}
  /\ parsed' = TRUE
  /\ leaked' = (leaked \/ OwnedBuffers(arg_token) # {})
  /\ ParseLocalsReset
  /\ UNCHANGED <<arg_desc, capacity_arg_desc, status, status_msg, help_msg>>

\* vex_parse, lines 230-387: one iteration of the loop, on the next argument.
vex_parse_arg(arg, outcome) ==
  /\ pc = "parsing"
  /\ Len(argv) < MaxArgs
  /\ outcome \in (IF arg_token_ptr = "freed" THEN UBOutcomes ELSE {"valid"})
  /\ LET p == [arg_token |-> arg_token, capacity_arg_token |-> capacity_arg_token,
               arg_token_ptr |-> arg_token_ptr, status |-> status,
               status_msg |-> status_msg, last_desc |-> last_desc,
               last_token |-> last_token, token_count |-> token_count,
               parse_options |-> parse_options, produced |-> produced,
               matched |-> matched, ub |-> ub, res |-> "continue"]
         q == ParseArg(p, arg_desc, arg, outcome)
     IN /\ arg_token' = q.arg_token
        /\ capacity_arg_token' = q.capacity_arg_token
        /\ arg_token_ptr' = q.arg_token_ptr
        /\ status' = q.status
        /\ status_msg' = q.status_msg
        /\ produced' = q.produced
        /\ matched' = q.matched
        /\ ub' = q.ub
        /\ pc' = CASE q.res = "continue" -> "parsing"
                   [] q.res = "false" -> "idle"
                   [] q.res = "abort" -> "aborted"
        /\ ret' = IF q.res = "false" THEN "false" ELSE ret
        /\ IF q.res = "continue"
             THEN /\ last_desc' = q.last_desc
                  /\ last_token' = q.last_token
                  /\ token_count' = q.token_count
                  /\ parse_options' = q.parse_options
           ELSE ParseLocalsReset
  /\ argv' = Append(argv, arg)
  /\ UNCHANGED <<arg_desc, capacity_arg_desc, help_msg, parsed, leaked>>

\* vex_parse, line 388: the loop is over, the call returns true.
vex_parse_return ==
  /\ pc = "parsing"
  /\ pc' = "idle"
  /\ ret' = "true"
  /\ ParseLocalsReset
  /\ UNCHANGED <<arg_desc, capacity_arg_desc, arg_token, capacity_arg_token,
                 arg_token_ptr, status, status_msg, help_msg, argv, produced,
                 matched, parsed, ub, leaked>>

\* The text vex_get_help builds (lines 462-522), as the pieces it appends:
\* the usage line, then one line per descriptor.
RECURSIVE HelpUsage(_)
HelpUsage(descs) ==
  IF descs = <<>> THEN <<>>
  ELSE LET desc == Head(descs)
       IN <<" [", "-", desc.short_name, "/", "--">> \o desc.long_name \o <<"] ">>
          \o (IF desc.arg_type # VEX_ARG_TYPE_FLAG /\ desc.max_count # 0
                THEN <<"... ">> ELSE <<>>)
          \o HelpUsage(Tail(descs))

\* Lines 453-459: 16 plus the length of the longest long name.
RECURSIVE HelpMaxArgLen(_)
HelpMaxArgLen(descs) ==
  IF descs = <<>> THEN 0
  ELSE LET arg_len == 16 + Len(Head(descs).long_name)
           rest == HelpMaxArgLen(Tail(descs))
       IN IF arg_len > rest THEN arg_len ELSE rest

\* Lines 489-517: one line per descriptor, its names padded with spaces to
\* max_arg_len + 1 columns.
RECURSIVE HelpArguments(_, _)
HelpArguments(descs, max_arg_len) ==
  IF descs = <<>> THEN <<>>
  ELSE LET desc == Head(descs)
           arg_len == 7 + Len(desc.long_name)
       IN <<" ", "-", desc.short_name, ", ", "--">> \o desc.long_name
          \o [k \in 1..(max_arg_len + 1 - arg_len) |-> " "] \o <<"\n">>
          \o HelpArguments(Tail(descs), max_arg_len)

HelpText(descs) ==
  <<"Usage: %s">> \o HelpUsage(descs) \o <<"\n\n", "Arguments:\n">>
  \o HelpArguments(descs, HelpMaxArgLen(descs))

\* vex_get_help(ctx) (lines 446-525): the cached text, rendered if absent.
vex_get_help ==
  /\ pc = "idle"
  /\ help_msg' = IF help_msg # NULL THEN help_msg ELSE HelpText(arg_desc)
  /\ UNCHANGED <<arg_desc, capacity_arg_desc, arg_token, capacity_arg_token,
                 arg_token_ptr, status, status_msg, pc, ret, argv, last_desc,
                 last_token, token_count, parse_options, produced, matched,
                 parsed, ub, leaked>>

\* vex_free(ctx) (lines 410-440): the registry, every token's name, values
\* and value array, the token buffer and the messages are released, and the
\* context is dead.  The buffer pointer is not looked at for staleness:
\* when vex_parse freed it and stored no token since, line 431 frees it a
\* second time.
vex_free(outcome) ==
  /\ pc = "idle"
  /\ outcome \in (IF arg_token_ptr = "freed" THEN {"valid", "abort"} ELSE {"valid"})
  /\ ub' = (ub \/ arg_token_ptr = "freed")
  /\ arg_token_ptr' = IF arg_token_ptr = "null" THEN "null" ELSE "freed"
  /\ pc' = IF outcome = "abort" THEN "aborted" ELSE "freed"
  /\ status_msg' = NULL
  /\ help_msg' = NULL
  /\ UNCHANGED <<arg_desc, capacity_arg_desc, arg_token, capacity_arg_token,
                 status, ret, argv, last_desc, last_token, token_count,
                 parse_options, produced, matched, parsed, leaked>>

\* vex_token_count(ctx) (lines 391-393).
vex_token_count == num_arg_token

\* vex_get_token(ctx, num) (lines 395-398), num 0-based; NULL out of range.
vex_get_token(num) ==
  IF num < 0 \/ num >= num_arg_token THEN NULL ELSE arg_token[num + 1]

\* The loop of vex_arg_found (lines 402-406) over tokens: the set of results
\* the call can have.  strcmp against the NULL long_name of a free-standing
\* token is undefined: the call faults, or the comparison is taken to fail.
RECURSIVE ArgFound(_, _)
ArgFound(name, tokens) ==
  IF tokens = <<>> THEN {"false"}
  ELSE LET token == Head(tokens)
       IN IF Len(name) = 1 /\ name[1] = token.short_name THEN {"true"}
          ELSE IF Len(name) > 1 /\ token.long_name = NULL
            THEN {"fault"} \cup ArgFound(name, Tail(tokens))
          ELSE IF Len(name) > 1 /\ strcmp_eq(name, token.long_name) THEN {"true"}
          ELSE ArgFound(name, Tail(tokens))

\* A lookup that consults the registry instead of the token list.
vex_arg_found_registry(name) ==
  IF name = NULL THEN {"false"}
  ELSE ArgFound(name, [d \in 1..Len(arg_desc) |-> TokenOf(arg_desc[d])])

\* vex_arg_found(ctx, name) (lines 400-408): the results the call can have.
vex_arg_found(name) ==
  IF name = NULL THEN {"false"} ELSE ArgFound(name, arg_token)

\* The documented control flow (registration, then one vex_parse call):
\* callers register distinct options and parse one argument vector.
Next ==
  \/ \E desc \in OptionPool :
       /\ num_arg_desc < MaxOptions
       /\ ~parsed
       /\ ~DuplicateArg(arg_desc, desc)
       /\ vex_add_arg(desc)
  \/ \E outcome \in UBOutcomes : ~parsed /\ vex_parse_enter(outcome)
  \/ \E arg \in ArgPool, outcome \in UBOutcomes : vex_parse_arg(arg, outcome)
  \/ vex_parse_return

Spec == Init /\ [][Next]_vars

\* Registration only: any descriptor of the pool, valid or not, and the help
\* text, in any order.
NextRegistry ==
  \/ \E desc \in DescPool : num_arg_desc < MaxDesc /\ vex_add_arg(desc)
  \/ vex_get_help

SpecRegistry == Init /\ [][NextRegistry]_vars

\* The whole life of a context: registration, repeated vex_parse calls, the
\* help text and the teardown in any order, on a small set of inputs.
NextLifecycle ==
  \/ \E desc \in LifecycleDescPool : num_arg_desc < MaxDesc /\ vex_add_arg(desc)
  \/ \E outcome \in UBOutcomes : vex_parse_enter(outcome)
  \/ \E arg \in LifecycleArgPool, outcome \in UBOutcomes : vex_parse_arg(arg, outcome)
  \/ vex_parse_return
  \/ vex_get_help
  \/ \E outcome \in UBOutcomes : vex_free(outcome)

SpecLifecycle == Init /\ [][NextLifecycle]_vars

\* Type inference: one vex_parse call on the default registry with a single
\* free-standing argument, for every text of the pool.
NextInfer ==
  \/ ~parsed /\ vex_parse_enter("valid")
  \/ \E text \in TextPool : argv = <<>> /\ vex_parse_arg(text, "valid")
  \/ vex_parse_return

SpecInfer == Init /\ [][NextInfer]_vars

\* ------------------------------------------------------------------------
\* Properties
\* ------------------------------------------------------------------------
\* desc has the short name or the long name of a descriptor of descs.
Collides(descs, desc) ==
  \E i \in 1..Len(descs) :
    descs[i].short_name = desc.short_name \/ descs[i].long_name = desc.long_name

\* The registry holds no two descriptors with one short name or one long name.
RegistryNamesDistinct ==
  \A i, j \in 1..Len(arg_desc) :
    i # j => /\ arg_desc[i].short_name # arg_desc[j].short_name
             /\ arg_desc[i].long_name # arg_desc[j].long_name

\* A vex_add_arg call whose descriptor collides with a registered one returns
\* false with VEX_STATUS_BAD_VALUE and registers nothing.
CollidingAddFails ==
  \A desc \in DescPool :
    (vex_add_arg(desc) /\ Collides(arg_desc, desc)) =>
      /\ ret' = "false"
      /\ status' = VEX_STATUS_BAD_VALUE
      /\ arg_desc' = arg_desc

ArgRead == pc = "parsing" /\ Len(argv') = Len(argv) + 1
NewArg == argv'[Len(argv')]

\* The shapes of an argument while option parsing is enabled.
IsSeparator(arg) == arg = <<"-", "-">>
IsOptionSyntax(arg) == arg # <<>> /\ arg[1] = "-"
IsFreeStanding(arg) == ~IsSeparator(arg) /\ ~IsOptionSyntax(arg)
IsShortCluster(arg) == Len(arg) >= 2 /\ arg[1] = "-" /\ arg[2] # "-"

\* The registered descriptor an option token came from (short names are
\* unique in the registry).
DescOfToken(t) ==
  arg_desc[CHOOSE d \in 1..Len(arg_desc) : arg_desc[d].short_name = t.short_name]

HasCapacity(t) ==
  DescOfToken(t).max_count < 0 \/ Len(t.arg) < DescOfToken(t).max_count

\* arg directly follows an option token that can take it: the newest token
\* is an option's, the argument just read touched it (it was not a lone "-"),
\* its descriptor has capacity and its declared type is the type of arg.
FollowsOpenOption(arg) ==
  /\ parse_options
  /\ IsFreeStanding(arg)
  /\ arg_token # <<>>
  /\ argv[Len(argv)] # <<"-">>
  /\ LET t == arg_token[Len(arg_token)]
     IN /\ t.short_name # NUL
        /\ HasCapacity(t)
        /\ InferType(arg, VEX_ARG_TYPE_UNKNOWN) = DescOfToken(t).arg_type

GroupedIntoLastToken(arg) ==
  LET n == Len(arg_token)
      value == ConvertValue(InferType(arg, VEX_ARG_TYPE_UNKNOWN), arg)
  IN /\ pc' = "parsing"
     /\ arg_token' = [arg_token EXCEPT ![n].arg = Append(@, value)]
     /\ (arg_token[n].arg_type = VEX_ARG_TYPE_STR => value.str_arg = arg)

\* C5: while option parsing is enabled, a free-standing argument that
\* directly follows an option token with capacity left and of the argument's
\* inferred type is appended to that token as its next value; no token is
\* created and the parse goes on.
C5_ValueGroupedWithOption ==
  [][(ArgRead /\ FollowsOpenOption(NewArg)) => GroupedIntoLastToken(NewArg)]_vars

\* C5 witness: ["-i", "a.b", "a.b"] with -i a String option of unbounded
\* max_count has produced one token holding both values.
C5_Witness ==
  /\ argv = <<A_i, A_str, A_str>>
  /\ Len(arg_token) = 1
  /\ arg_token[1].short_name = "i"
  /\ Len(arg_token[1].arg) = 2
  /\ arg_token[1].arg[2].str_arg = A_str

Registered(c) == \E d \in 1..Len(arg_desc) : arg_desc[d].short_name = c
RegisteredFlag(c) ==
  \E d \in 1..Len(arg_desc) :
    arg_desc[d].short_name = c /\ arg_desc[d].arg_type = VEX_ARG_TYPE_FLAG

\* arg is a short-option cluster whose first unregistered character comes
\* after registered Flags only (or first).
UnknownAfterFlagsOnly(arg) ==
  /\ parse_options
  /\ IsShortCluster(arg)
  /\ \E i \in 2..Len(arg) :
       /\ ~Registered(arg[i])
       /\ \A j \in 2..(i - 1) : RegisteredFlag(arg[j])

\* C6: a short-option cluster with a character that matches no registered
\* short name, and no earlier non-Flag option in the same cluster, makes
\* vex_parse return false with VEX_STATUS_UNKNOWN_ARG, whatever earlier
\* arguments produced.
C6_UnknownShortOption ==
  [][(ArgRead /\ UnknownAfterFlagsOnly(NewArg))
       => /\ pc' = "idle"
          /\ ret' = "false"
          /\ status' = VEX_STATUS_UNKNOWN_ARG]_vars

\* C6 witness: ["-i", "-hvx"] with -i a registered String option and -x not
\* registered has failed at 'x', after the tokens for -i, -h and -v.
C6_Witness ==
  /\ argv = <<A_i, A_hvx>>
  /\ ret = "false"
  /\ status = VEX_STATUS_UNKNOWN_ARG
  /\ status_msg = <<"Unknown option: -%c", "x">>
  /\ Len(arg_token) = 3
  /\ arg_token[1].arg_type = VEX_ARG_TYPE_STR

\* The names callers look up: every registered or poolable short and long
\* name, the empty name and NULL.
ProbeNames ==
  {<<"h">>, S_help, <<"v">>, S_version, <<>>, NULL}
    \cup {<<d.short_name>> : d \in DescPool} \cup {d.long_name : d \in DescPool}

\* C7: before any vex_parse call the token list is empty and vex_arg_found is
\* false for every name, whatever was registered; once vex_parse has run,
\* vex_arg_found("h") can be true only if the call matched the help option.
C7_RegistrationCreatesNoToken ==
  /\ ~parsed => /\ vex_token_count = 0
                /\ \A name \in ProbeNames : vex_arg_found(name) = {"false"}
  /\ parsed => ("true" \in vex_arg_found(<<"h">>) => 0 \in matched)

\* C7 witness: -i/--in is registered beside the defaults and a parse that
\* matched -i but not -h has returned: "i" is found, "h" is not.
C7_Witness ==
  /\ parsed
  /\ pc = "idle"
  /\ ret = "true"
  /\ Len(arg_desc) = 3
  /\ 0 \notin matched
  /\ vex_arg_found(<<"i">>) = {"true"}
  /\ vex_arg_found(<<"h">>) = {"false"}

\* The parts of a `--name=value` argument.
EqualsAt(arg) == CHOOSE i \in 1..Len(arg) : arg[i] = "=" /\ \A j \in 1..(i - 1) : arg[j] # "="
NameText(arg) == SubSeq(arg, 3, EqualsAt(arg) - 1)
ValueText(arg) == SubSeq(arg, EqualsAt(arg) + 1, Len(arg))

\* arg is `--name=value` with name the exact long name of a registered
\* non-Flag option.
IsExactLongValue(arg) ==
  /\ Len(arg) >= 3 /\ arg[1] = "-" /\ arg[2] = "-"
  /\ \E i \in 3..Len(arg) : arg[i] = "="
  /\ \E d \in 1..Len(arg_desc) :
       /\ arg_desc[d].long_name = NameText(arg)
       /\ arg_desc[d].arg_type # VEX_ARG_TYPE_FLAG

NamedDesc(arg) ==
  arg_desc[CHOOSE d \in 1..Len(arg_desc) : arg_desc[d].long_name = NameText(arg)]

\* C2: a finished vex_parse call whose arguments were all `--name=value`
\* with exact registered non-Flag long names succeeded, and its i-th token
\* belongs to the i-th named option, has that option's type and holds exactly
\* the one supplied value.
C2_LongValueRoundTrip ==
  (/\ pc = "idle" /\ parsed /\ argv # <<>>
   /\ \A i \in 1..Len(argv) : IsExactLongValue(argv[i]))
    => /\ ret = "true"
       /\ vex_token_count = Len(argv)
       /\ \A i \in 1..Len(argv) :
            LET d == NamedDesc(argv[i])
                t == arg_token[i]
            IN /\ t.long_name = d.long_name
               /\ t.short_name = d.short_name
               /\ t.arg_type = d.arg_type
               /\ t.arg = <<ConvertValue(d.arg_type, ValueText(argv[i]))>>

\* C3: a vex_parse call on a context that was parsed before runs to its end,
\* and the token list then holds exactly the tokens built from this call's
\* arguments.
C3_SecondParseDiscardsFirst ==
  /\ pc # "aborted"
  /\ (pc = "idle" /\ parsed) => arg_token = produced

\* The position of the first `--` among the arguments read so far.
SeparatorAt ==
  CHOOSE s \in 1..Len(argv) :
    IsSeparator(argv[s]) /\ \A j \in 1..(s - 1) : ~IsSeparator(argv[j])

\* C4: once `--` has been read, every later argument of the call is stored as
\* its own token without short or long name and with one value, and the call
\* has not failed.
C4_SeparatorDisablesOptions ==
  (parsed /\ \E s \in 1..Len(argv) : IsSeparator(argv[s]))
    => LET k == Len(argv) - SeparatorAt
           n == Len(arg_token)
       IN /\ ret # "false"
          /\ n >= k
          /\ \A j \in 1..k :
               /\ arg_token[n - k + j].short_name = NUL
               /\ arg_token[n - k + j].long_name = NULL
               /\ Len(arg_token[n - k + j].arg) = 1

\* C8: after a mutating call (vex_add_arg, vex_parse) that succeeded, the
\* status is Ok and there is no message, whatever earlier calls did.
C8_StatusResetOnSuccess ==
  ret = "true" => (status = VEX_STATUS_OK /\ status_msg = NULL)

\* C9: every option token whose descriptor has max_count >= 0 holds at most
\* max_count values.
C9_ValuesWithinMaxCount ==
  \A i \in 1..Len(arg_token) :
    arg_token[i].short_name # NUL =>
      (DescOfToken(arg_token[i]).max_count >= 0
         => Len(arg_token[i].arg) <= DescOfToken(arg_token[i]).max_count)

\* C10: every stored token's type is Flag, Integer, Float or String, never
\* Unknown.
C10_NoUnknownTokenType ==
  \A i \in 1..Len(arg_token) :
    arg_token[i].arg_type \in {VEX_ARG_TYPE_FLAG, VEX_ARG_TYPE_INT,
                               VEX_ARG_TYPE_DUB, VEX_ARG_TYPE_STR}

\* What a lookup of name should answer on the current token list.
ExpectedFound(name) ==
  IF Len(name) = 1
    THEN \E i \in 1..Len(arg_token) : arg_token[i].short_name = name[1]
  ELSE \E i \in 1..Len(arg_token) : arg_token[i].long_name = name

\* C11: on the token list a vex_parse call left, vex_arg_found answers every
\* name of one or more characters without fault: true exactly when a token's
\* short name (1-character name) or long name (longer name) equals it.
C11_ArgFoundAnswers ==
  (pc = "idle" /\ parsed) =>
    \A name \in ProbeNames \ {NULL, <<>>} :
      vex_arg_found(name) = {IF ExpectedFound(name) THEN "true" ELSE "false"}

\* C12: no buffer of the context is released twice or resized or read after
\* its release, and at teardown none is left unreleased: no call executes
\* undefined behaviour on the token buffer, and a context that has been
\* freed has dropped no buffer without releasing it.
C12_BuffersReleasedOnce ==
  /\ ~ub
  /\ pc # "aborted"
  /\ pc = "freed" => ~leaked

\* A cached help text is the rendering of the current registry.
HelpCacheCurrent == help_msg # NULL => help_msg = HelpText(arg_desc)

\* A step that registers a descriptor leaves no cached text; a step that
\* registers nothing keeps the text that was cached.
HelpCacheStep ==
  /\ Len(arg_desc') > Len(arg_desc) => help_msg' = NULL
  /\ (arg_desc' = arg_desc /\ help_msg # NULL) => help_msg' = help_msg

\* C13: the help text is memoized until the registry changes and is never
\* stale: a cached text is the rendering of the current registry, every
\* successful vex_add_arg drops it, and vex_get_help calls with no
\* registration between them return the same text.
C13_HelpMemoized == []HelpCacheCurrent /\ [][HelpCacheStep]_vars

\* C13 witness: vex_get_help was called, -i/--in and -n/--num were then
\* registered, and vex_get_help has rendered the four-descriptor registry.
C13_Witness ==
  /\ Len(arg_desc) = 4
  /\ arg_desc[3] = D_in
  /\ arg_desc[4] = D_num
  /\ help_msg = HelpText(arg_desc)
  /\ help_msg # HelpText(SubSeq(arg_desc, 1, 2))

\* a is a prefix of b.
IsPrefix(a, b) == Len(a) <= Len(b) /\ SubSeq(b, 1, Len(a)) = a

\* The name a long option supplies: the text after `--` up to the first `=`.
SuppliedName(arg) ==
  LET rest == SubSeq(arg, 3, Len(arg))
      n == CHOOSE k \in 0..Len(rest) :
             /\ k = Len(rest) \/ rest[k + 1] = "="
             /\ \A j \in 1..k : rest[j] # "="
  IN SubSeq(rest, 1, n)

\* The argument read in this step is a long option.
LongOptionRead ==
  /\ ArgRead
  /\ parse_options
  /\ Len(NewArg) > 2 /\ NewArg[1] = "-" /\ NewArg[2] = "-"

\* The step stores one more token, named after descriptor d, and goes on.
TokenStoredFor(d) ==
  /\ pc' = "parsing"
  /\ Len(arg_token') = Len(arg_token) + 1
  /\ arg_token'[Len(arg_token')].long_name = arg_desc[d].long_name
  /\ arg_token'[Len(arg_token')].short_name = arg_desc[d].short_name

FailsUnknownArg ==
  pc' = "idle" /\ ret' = "false" /\ status' = VEX_STATUS_UNKNOWN_ARG

\* Descriptor d is the first whose long name is a prefix of the supplied
\* name (the comparison runs over the registered name's length).
FirstByRegisteredLength(d, arg) ==
  /\ IsPrefix(arg_desc[d].long_name, SuppliedName(arg))
  /\ \A e \in 1..(d - 1) : ~IsPrefix(arg_desc[e].long_name, SuppliedName(arg))

\* Descriptor d is the first whose long name starts with the supplied name
\* (the comparison runs over the supplied name's length).
FirstBySuppliedLength(d, arg) ==
  /\ IsPrefix(SuppliedName(arg), arg_desc[d].long_name)
  /\ \A e \in 1..(d - 1) : ~IsPrefix(SuppliedName(arg), arg_desc[e].long_name)

Dots(text) == Cardinality({i \in 1..Len(text) : text[i] = "."})
OnlyDigits(text) == text # <<>> /\ \A i \in 1..Len(text) : isdigit(text[i])
OnlyDigitsAndDots(text) ==
  /\ \A i \in 1..Len(text) : isdigit(text[i]) \/ text[i] = "."
  /\ \E i \in 1..Len(text) : isdigit(text[i])

\* C15: the token of a single free-standing argument has type Integer when
\* its text is only digits, Float when it is digits with exactly one `.`,
\* String when another non-digit character is present, and never Float when
\* the text has two or more `.` characters.
C15_TypeInference ==
  (Len(argv) = 1 /\ Len(arg_token) = 1) =>
    LET text == argv[1]
        type == arg_token[1].arg_type
    IN /\ OnlyDigits(text) => type = VEX_ARG_TYPE_INT
       /\ (OnlyDigitsAndDots(text) /\ Dots(text) = 1) => type = VEX_ARG_TYPE_DUB
       /\ (\E i \in 1..Len(text) : ~isdigit(text[i]) /\ text[i] # ".")
            => type = VEX_ARG_TYPE_STR
       /\ Dots(text) >= 2 => type # VEX_ARG_TYPE_DUB

\* arg is a free-standing argument read while option parsing is enabled and
\* an option token is the carried last token: the newest token is an
\* option's and the argument just before was not a lone "-".
AfterOptionToken(arg) ==
  /\ parse_options
  /\ IsFreeStanding(arg)
  /\ arg_token # <<>>
  /\ argv[Len(argv)] # <<"-">>
  /\ arg_token[Len(arg_token)].short_name # NUL

\* The descriptor-less token a free-standing argument makes.
FreeToken(arg) ==
  [long_name |-> NULL, short_name |-> NUL,
   arg_type |-> InferType(arg, VEX_ARG_TYPE_UNKNOWN),
   arg |-> <<ConvertValue(InferType(arg, VEX_ARG_TYPE_UNKNOWN), arg)>>]

StoredAsNewToken(arg) ==
  pc' = "parsing" /\ arg_token' = Append(arg_token, FreeToken(arg))

\* C16: while option parsing is enabled, a free-standing argument whose
\* inferred type differs from the declared type of the last option token
\* fails the parse with VEX_STATUS_BAD_VALUE and stores nothing when that
\* token has capacity left, and is stored as a new token, the parse going on,
\* when it has none.
C16_TypeMismatchFails ==
  [][(/\ ArgRead
      /\ AfterOptionToken(NewArg)
      /\ InferType(NewArg, VEX_ARG_TYPE_UNKNOWN)
           # DescOfToken(arg_token[Len(arg_token)]).arg_type)
       => IF HasCapacity(arg_token[Len(arg_token)])
            THEN /\ pc' = "idle"
                 /\ ret' = "false"
                 /\ status' = VEX_STATUS_BAD_VALUE
                 /\ arg_token' = arg_token
          ELSE StoredAsNewToken(NewArg)]_vars

\* C16 witness: `--num` (Integer, max_count 2) followed by `a.b` has failed
\* with "Unexpected value", the token of --num still without a value.
C16_Witness ==
  /\ argv = <<A_num, A_str>>
  /\ ret = "false"
  /\ status = VEX_STATUS_BAD_VALUE
  /\ status_msg = <<"Unexpected value">>
  /\ Len(arg_token) = 1
  /\ arg_token[1].short_name = "n"
  /\ arg_token[1].arg = <<>>

\* arg is stored as a value: anything but `--` once option parsing is
\* disabled, a free-standing argument before.
IsValueArg(arg) ==
  ~IsSeparator(arg) /\ (parse_options => IsFreeStanding(arg))

DescriptorLessHoldOne ==
  \A i \in 1..Len(arg_token) :
    arg_token[i].short_name = NUL =>
      (arg_token[i].long_name = NULL /\ Len(arg_token[i].arg) = 1)

ValueAfterFreeToken ==
  (/\ ArgRead
   /\ IsValueArg(NewArg)
   /\ arg_token # <<>>
   /\ arg_token[Len(arg_token)].short_name = NUL)
    => StoredAsNewToken(NewArg)

ValueAttachesOrStartsToken ==
  (ArgRead /\ IsValueArg(NewArg) /\ pc' = "parsing")
    => \/ StoredAsNewToken(NewArg)
       \/ /\ AfterOptionToken(NewArg)
          /\ arg_token' = [arg_token EXCEPT ![Len(arg_token)].arg =
               Append(@, ConvertValue(InferType(NewArg, VEX_ARG_TYPE_UNKNOWN), NewArg))]

\* C17: a free-standing value that does not attach to the last option token
\* starts a token without short or long name, of the inferred type and with
\* that one value; every descriptor-less token holds exactly one value, and
\* a value that follows a descriptor-less token starts its own token.
C17_FreeValueOwnToken ==
  []DescriptorLessHoldOne /\ [][ValueAfterFreeToken /\ ValueAttachesOrStartsToken]_vars

\* C17 witness: ["-h", "a.b", "42"] has produced the token of -h, a String
\* token for a.b and an Integer token for 42.
C17_Witness ==
  /\ argv = <<A_h, A_str, A_int>>
  /\ Len(arg_token) = 3
  /\ arg_token[2] = FreeToken(A_str)
  /\ arg_token[3] = FreeToken(A_int)
  /\ arg_token[3].arg[1].int_arg = 42

\* The registered descriptor with short name c.
DescByShort(c) ==
  arg_desc[CHOOSE d \in 1..Len(arg_desc) : arg_desc[d].short_name = c]

\* Position i of a short-option cluster holds its first unregistered
\* character, and the character just before it is a non-Flag option.
UnknownAfterValueOption(arg, i) ==
  /\ i \in 3..Len(arg)
  /\ ~Registered(arg[i])
  /\ \A j \in 2..(i - 1) : Registered(arg[j])
  /\ ~RegisteredFlag(arg[i - 1])

\* The tokens of the cluster characters before position i, the last of them
\* holding the rest of the argument as its one value.
ClusterTokens(arg, i) ==
  [j \in 1..(i - 2) |->
     LET d == DescByShort(arg[j + 1])
     IN [long_name |-> d.long_name, short_name |-> d.short_name,
         arg_type |-> d.arg_type,
         arg |-> IF j = i - 2
                   THEN <<ConvertValue(d.arg_type, SubSeq(arg, i, Len(arg)))>>
                 ELSE <<>>]]

\* C18: in a short-option cluster, at the first unregistered character with
\* a non-Flag option just before it, the rest of the argument from that
\* character on becomes one value of that option's token, converted to its
\* type, and nothing after it is scanned: the step stores the tokens of the
\* characters before it and no other, and the parse goes on.
C18_ClusterValueAttached ==
  [][(ArgRead /\ parse_options /\ IsShortCluster(NewArg)) =>
       \A i \in 3..Len(NewArg) :
         UnknownAfterValueOption(NewArg, i) =>
           /\ pc' = "parsing"
           /\ status' = status
           /\ arg_token' = arg_token \o ClusterTokens(NewArg, i)]_vars

\* C18 witness: `-n5h` with -n an Integer option has produced the one token
\* of -n with the value 5; the trailing h made no token of -h.
C18_Witness ==
  /\ argv = <<A_n5h>>
  /\ pc = "idle"
  /\ ret = "true"
  /\ Len(arg_token) = 1
  /\ arg_token[1].short_name = "n"
  /\ Len(arg_token[1].arg) = 1
  /\ arg_token[1].arg[1].int_arg = 5

\* The vex_parse call ends in this step with a failure at the argument read.
FailsAtNewArg == ArgRead /\ pc' = "idle"

\* The first character of a short-option cluster that is not registered.
FirstUnregistered(arg) ==
  CHOOSE i \in 2..Len(arg) :
    ~Registered(arg[i]) /\ \A j \in 2..(i - 1) : Registered(arg[j])

\* What the characters of the failing argument stored before the failure:
\* in a short-option cluster one value-less token per registered character
\* in front of the unknown one, nothing in any other argument.
TokensBeforeFailure(arg) ==
  IF parse_options /\ IsShortCluster(arg)
    THEN [j \in 1..(FirstUnregistered(arg) - 2) |->
            LET d == DescByShort(arg[j + 1])
            IN [long_name |-> d.long_name, short_name |-> d.short_name,
                arg_type |-> d.arg_type, arg |-> <<>>]]
  ELSE <<>>

\* C19: when vex_parse fails at an argument it returns false at once with a
\* status other than Ok, and the token list is the one it had before that
\* argument followed by the tokens of the argument's characters scanned
\* before the failing one: nothing is taken back and no later argument is
\* read.
C19_FailureKeepsPartialTokens ==
  [][FailsAtNewArg =>
       /\ ret' = "false"
       /\ status' # VEX_STATUS_OK
       /\ status_msg' # NULL
       /\ arg_token' = arg_token \o TokensBeforeFailure(NewArg)]_vars
  /\ [](ret = "false" => pc = "idle")

\* C19 witness: ["42", "-hvx"] with -x not registered has failed at x; the
\* list holds the token of 42 and the tokens of -h and -v.
C19_Witness ==
  /\ argv = <<A_int, A_hvx>>
  /\ ret = "false"
  /\ status = VEX_STATUS_UNKNOWN_ARG
  /\ Len(arg_token) = 3
  /\ arg_token[1] = FreeToken(A_int)
  /\ arg_token[2].short_name = "h"
  /\ arg_token[3].short_name = "v"

\* C20: a token of type Flag holds no value.
C20_FlagHasNoValue ==
  \A i \in 1..Len(arg_token) :
    arg_token[i].arg_type = VEX_ARG_TYPE_FLAG => arg_token[i].arg = <<>>

\* C20 witness: with -f/--force registered as a Flag of max_count 1,
\* `--ver=7` has matched the Flag `version`, `-f` has followed, and the free
\* value 42 has been refused: both Flag tokens are without value.
C20_Witness ==
  /\ argv = <<A_ver7, A_f, A_int>>
  /\ Len(arg_token) = 2
  /\ arg_token[1].long_name = S_version
  /\ arg_token[1].arg_type = VEX_ARG_TYPE_FLAG
  /\ arg_token[2].short_name = "f"
  /\ arg_token[2].arg = <<>>
  /\ ret = "false"
  /\ status = VEX_STATUS_BAD_VALUE

\* C21: a long option whose supplied name is exactly the long name of a
\* registered option, with or without `=value`, produces the token of that
\* option, with its long and short name, whatever else is registered and in
\* whatever order.
C21_ExactLongNameResolved ==
  [][LongOptionRead =>
       \A d \in 1..Len(arg_desc) :
         arg_desc[d].long_name = SuppliedName(NewArg) => TokenStoredFor(d)]_vars

\* arg is `-x` immediately followed by a non-empty text, x the short name of
\* a registered non-Flag option.
IsAttachedValueIdiom(arg) ==
  /\ Len(arg) >= 3
  /\ arg[1] = "-"
  /\ Registered(arg[2])
  /\ ~RegisteredFlag(arg[2])

\* C22: a vex_parse call whose single argument is `-x` followed by a text,
\* x a registered non-Flag option, succeeds with exactly one token, that of
\* x, holding the one value converted from the whole text.
C22_AttachedValueIdiom ==
  (pc = "idle" /\ parsed /\ Len(argv) = 1 /\ IsAttachedValueIdiom(argv[1])) =>
    LET d == DescByShort(argv[1][2])
    IN /\ ret = "true"
       /\ arg_token =
            <<[long_name |-> d.long_name, short_name |-> d.short_name,
               arg_type |-> d.arg_type,
               arg |-> <<ConvertValue(d.arg_type, SubSeq(argv[1], 3, Len(argv[1])))>>]>>

\* The argument read in this step is the first `--` of the call.
FirstSeparatorRead ==
  IsSeparator(NewArg) /\ \A j \in 1..Len(argv) : ~IsSeparator(argv[j])

\* C23: every argument of a vex_parse call that goes on after it, other than
\* the first `--`, leaves a trace in the token list: a new token or a new
\* value of an existing token.  (vex_parse can return true after any such
\* step, so these are the arguments of the successful calls.)
C23_EveryArgumentLeavesTrace ==
  [][(ArgRead /\ pc' = "parsing" /\ ~FirstSeparatorRead)
       => arg_token' # arg_token]_vars

=============================================================================
